---- MODULE Spec2Model ----
(***************************************************************************)
(* Model of the cryptofeed sink writers: CustomizeMixin (routing templates *)
(* and data shaping), KafkaCallback and the Redis sorted-set / stream      *)
(* callbacks.  Strings are TLC strings; substring search, replacement and  *)
(* case conversion are computed character by character as Python's str    *)
(* methods compute them.  A Python dict whose order matters is a sequence  *)
(* of <<key, value>> pairs with distinct keys.                             *)
(***************************************************************************)
EXTENDS Integers, Sequences, FiniteSets, TLC

VARIABLES
    variant,            \* "kafka", "zset" or "stream": which callback class
    channel_name,       \* class attribute channel_name (the message kind)
    topic_parts,        \* the pieces the constructor argument topic is written from
    key_parts,          \* the pieces the constructor argument key is written from
    targets_arg,        \* constructor argument data_targets (<<>> when not given)
    config_ok,          \* whether AIOKafkaProducer accepts the producer_config kwargs
    pc,                 \* position of the instance / of its writer task
    topic_template,     \* self.topic_template ("" for None)
    key_template,       \* self.key_template ("" for None)
    data_targets,       \* self.data_targets (<<>> for None)
    custom_strings,     \* self.custom_strings
    custom_string_keys, \* self.custom_string_keys
    running,            \* self.running
    conn,               \* self.producer / the redis connection
    broker_up,          \* whether the broker can be reached
    produced,           \* number of records the feed has put on the queue
    queue,              \* the internal queue
    updates,            \* the batch drained by read_queue
    index,              \* position of the writer in the batch
    inflight,           \* Kafka: the message whose acknowledgment is awaited
    pipe,               \* Redis: the commands buffered in the pipeline
    drains,             \* number of batches drained so far
    attempts,           \* the records handed to the sink, in order: [id, batch]
    failed,             \* Kafka: the records whose send or acknowledgment raised
    sent,               \* the messages the sink has accepted, in order
    errors,             \* failed attempts of the connection loop so far (saturating)
    stop_requested,     \* the application has cleared the running flag
    stop_at,            \* where the writer was when it did
    calls,              \* number of direct mixin calls (SpecMixin)
    last                \* what the last CustomizeMixin call did

vars == <<variant, channel_name, topic_parts, key_parts, targets_arg, config_ok, pc,
          topic_template, key_template, data_targets, custom_strings,
          custom_string_keys, running, conn, broker_up, produced, queue, updates,
          index, inflight, pipe, drains, attempts, failed, sent, errors, stop_requested,
          stop_at, calls, last>>

configVars == <<variant, channel_name, topic_parts, key_parts, targets_arg, config_ok>>
writerVars == <<conn, broker_up, produced, queue, updates, index, inflight, pipe,
                drains, attempts, failed, sent, errors, stop_requested, stop_at>>

-----------------------------------------------------------------------------
(* Bounds *)

MaxParts == 2       \* pieces in a template (SpecMixin)
MaxCalls == 2       \* direct calls of the mixin (SpecMixin)
MaxTargets == 2     \* entries of a shaping spec (SpecMixin)
NumRecords == 2     \* distinct records of a kind a writer is fed
MixinRecords == 3   \* distinct records of a kind the mixin is called with
MaxProduced == 3    \* records the feed puts on the queue (Spec)
MaxErrors == 2      \* the error count saturates here

-----------------------------------------------------------------------------
(* Python str methods *)

LOWERCASE == "abcdefghijklmnopqrstuvwxyz"
UPPERCASE == "ABCDEFGHIJKLMNOPQRSTUVWXYZ"

CharAt(s, i) == SubSeq(s, i, i)
LowerChars == {CharAt(LOWERCASE, i) : i \in 1..Len(LOWERCASE)}
UpperChars == {CharAt(UPPERCASE, i) : i \in 1..Len(UPPERCASE)}
UpperOf == [c \in LowerChars |->
                CharAt(UPPERCASE, CHOOSE i \in 1..Len(LOWERCASE) : CharAt(LOWERCASE, i) = c)]
LowerOf == [c \in UpperChars |->
                CharAt(LOWERCASE, CHOOSE i \in 1..Len(UPPERCASE) : CharAt(UPPERCASE, i) = c)]
IsLowerChar(c) == c \in LowerChars
IsUpperChar(c) == c \in UpperChars
IsCased(c) == IsLowerChar(c) \/ IsUpperChar(c)
ToUpperChar(c) == IF IsLowerChar(c) THEN UpperOf[c] ELSE c
ToLowerChar(c) == IF IsUpperChar(c) THEN LowerOf[c] ELSE c

RECURSIVE str_upper(_)
str_upper(s) ==
    IF s = "" THEN "" ELSE ToUpperChar(CharAt(s, 1)) \o str_upper(SubSeq(s, 2, Len(s)))

RECURSIVE str_lower(_)
str_lower(s) ==
    IF s = "" THEN "" ELSE ToLowerChar(CharAt(s, 1)) \o str_lower(SubSeq(s, 2, Len(s)))

RECURSIVE TitleFrom(_, _)
TitleFrom(s, prevCased) ==
    IF s = "" THEN ""
    ELSE LET c == CharAt(s, 1)
         IN  (IF prevCased THEN ToLowerChar(c) ELSE ToUpperChar(c))
                \o TitleFrom(SubSeq(s, 2, Len(s)), IsCased(c))

str_title(s) == TitleFrom(s, FALSE)

str_islower(s) ==
    /\ \E i \in 1..Len(s) : IsLowerChar(CharAt(s, i))
    /\ \A i \in 1..Len(s) : ~IsUpperChar(CharAt(s, i))

str_isupper(s) ==
    /\ \E i \in 1..Len(s) : IsUpperChar(CharAt(s, i))
    /\ \A i \in 1..Len(s) : ~IsLowerChar(CharAt(s, i))

str_istitle(s) ==
    /\ \E i \in 1..Len(s) : IsUpperChar(CharAt(s, i))
    /\ \A i \in 1..Len(s) :
          LET prevCased == i > 1 /\ IsCased(CharAt(s, i - 1))
          IN  /\ IsUpperChar(CharAt(s, i)) => ~prevCased
              /\ IsLowerChar(CharAt(s, i)) => prevCased

\* word in s
Contains(s, word) ==
    \E i \in 1..(Len(s) - Len(word) + 1) : SubSeq(s, i, i + Len(word) - 1) = word

\* s.replace(old, new), old not empty: leftmost occurrences, not overlapping
RECURSIVE str_replace(_, _, _)
str_replace(s, old, new) ==
    IF Len(s) < Len(old) THEN s
    ELSE IF SubSeq(s, 1, Len(old)) = old
         THEN new \o str_replace(SubSeq(s, Len(old) + 1, Len(s)), old, new)
         ELSE CharAt(s, 1) \o str_replace(SubSeq(s, 2, Len(s)), old, new)

\* sep.join(strs)
RECURSIVE str_join(_, _)
str_join(sep, strs) ==
    IF strs = <<>> THEN ""
    ELSE IF Len(strs) = 1 THEN strs[1]
    ELSE strs[1] \o sep \o str_join(sep, Tail(strs))

\* a case function named by "upper", "lower" or "title"
ApplyCase(case, s) ==
    CASE case = "upper" -> str_upper(s)
      [] case = "lower" -> str_lower(s)
      [] case = "title" -> str_title(s)

-----------------------------------------------------------------------------
(* Sequences and ordered dicts *)

Range(seq) == {seq[i] : i \in 1..Len(seq)}

RECURSIVE Flatten(_)
Flatten(seqs) == IF seqs = <<>> THEN <<>> ELSE Head(seqs) \o Flatten(Tail(seqs))

DictKeys(d) == [i \in 1..Len(d) |-> d[i][1]]
DictHas(d, k) == \E i \in 1..Len(d) : d[i][1] = k
DictGet(d, k) == d[CHOOSE i \in 1..Len(d) : d[i][1] = k][2]
\* d[k] = v: an existing key keeps its position
DictSet(d, k, v) ==
    IF DictHas(d, k)
    THEN [i \in 1..Len(d) |-> IF d[i][1] = k THEN <<k, v>> ELSE d[i]]
    ELSE Append(d, <<k, v>>)

-----------------------------------------------------------------------------
(* CustomizeMixin: class attributes *)

STANDARD_KEYWORDS == <<"exchange", "channel">>

DYNAMIC_KEYWORDS ==
    <<"symbol", "side", "type", "status", "interval", "client_order_id",
      "account", "currency", "order_id", "liquidity">>

VALID_ATTR ==
    [trades |->
        [strings |-> <<"exchange", "symbol", "side", "id", "type">>,
         others  |-> <<"price", "amount", "timestamp", "raw">>],
     funding |->
        [strings |-> <<"exchange", "symbol">>,
         others  |-> <<"mark_price", "rate", "next_funding_time", "predicted_rate",
                       "timestamp", "raw">>],
     book |->
        [strings |-> <<"exchange", "symbol">>,
         others  |-> <<"book", "delta", "sequence_number", "checksum", "timestamp", "raw">>],
     ticker |->
        [strings |-> <<"exchange", "symbol">>,
         others  |-> <<"bid", "ask", "timestamp", "raw">>],
     open_interest |->
        [strings |-> <<"exchange", "symbol">>,
         others  |-> <<"open_interest", "timestamp", "raw">>],
     liquidations |->
        [strings |-> <<"exchange", "symbol", "side", "id", "status">>,
         others  |-> <<"quantity", "price", "timestamp", "raw">>],
     candles |->
        [strings |-> <<"exchange", "symbol", "interval">>,
         others  |-> <<"start", "stop", "trades", "open", "close", "high", "low",
                       "volume", "closed", "timestamp", "raw">>],
     order_info |->
        [strings |-> <<"exchange", "symbol", "id", "client_order_id", "side", "status",
                       "type", "account">>,
         others  |-> <<"price", "amount", "remaining", "timestamp", "raw">>],
     transactions |->
        [strings |-> <<"exchange", "currency", "type", "status">>,
         others  |-> <<"amount", "timestamp", "raw">>],
     balances |->
        [strings |-> <<"exchange", "currency">>,
         others  |-> <<"balance", "reserved", "raw">>],
     fills |->
        [strings |-> <<"exchange", "symbol", "side", "id", "order_id", "liquidity",
                       "type", "account">>,
         others  |-> <<"price", "amount", "fee", "timestamp", "raw">>]]

-----------------------------------------------------------------------------
(* CustomizeMixin: methods *)

\* the generator's output as a list: every word in upper, lower and title case
_case_generator(words) ==
    Flatten([i \in 1..Len(words) |->
                <<str_upper(words[i]), str_lower(words[i]), str_title(words[i])>>])

DynamicCases == _case_generator(DYNAMIC_KEYWORDS)
StandardCases == _case_generator(STANDARD_KEYWORDS)

\* _check_case that answers str.upper for a Title-case item
_check_case_TitleAsUpper(item) ==
    IF str_islower(item) THEN "lower"
    ELSE IF str_istitle(item) THEN "upper"
    ELSE IF str_isupper(item) THEN "upper"
    ELSE "none"

\* the case function matching item, "none" when the chain of tests falls through
_check_case(item) ==
    IF str_islower(item) THEN "lower"
    ELSE IF str_istitle(item) THEN "title"
    ELSE IF str_isupper(item) THEN "upper"
    ELSE "none"

\* [word for word in _case_generator(check_list) if word in user_template]
_find_swaps(user_template, dynamic) ==
    LET InTemplate(word) == Contains(user_template, word)
    IN  SelectSeq(IF dynamic THEN DynamicCases ELSE StandardCases, InTemplate)

\* the list _check_dynamic stores in custom_string_keys[str_type]
_check_dynamic_keys(user_str) ==
    LET words == DynamicCases
        InStr(word) == Contains(user_str, word)
        found == SelectSeq(words, InStr)
    IN  [i \in 1..Len(found) |-> str_lower(found[i])]

\* data.get(item.lower(), self.channel_name)
SwapValue(data, item, channel) ==
    IF DictHas(data, str_lower(item)) THEN DictGet(data, str_lower(item)) ELSE channel

RECURSIVE _swap_items(_, _, _, _)
_swap_items(user_str, swap_list, data, channel) ==
    IF swap_list = <<>> THEN user_str
    ELSE LET item == Head(swap_list)
             replacement == ApplyCase(_check_case(item), SwapValue(data, item, channel))
         IN  _swap_items(str_replace(user_str, item, replacement),
                         Tail(swap_list), data, channel)

\* the custom string; the key list of the dynamic form is KeyList below
_customize_string(user_template, data, dynamic, channel) ==
    _swap_items(user_template, _find_swaps(user_template, dynamic), data, channel)

KeyList(user_template) ==
    LET swap_list == _find_swaps(user_template, TRUE)
    IN  [i \in 1..Len(swap_list) |-> str_lower(swap_list[i])]

\* valid_template(str_type, user_template): ok is FALSE when it raises
\* SystemExit, value is what it returns otherwise
valid_template(channel, str_type, user_template) ==
    LET words == DynamicCases
        InTemplate(word) == Contains(user_template, word)
        found == SelectSeq(words, InTemplate)
        keys_in_template == [i \in 1..Len(found) |-> str_lower(found[i])]
    IN  [ok |-> \A i \in 1..Len(keys_in_template) :
                    keys_in_template[i] \in Range(VALID_ATTR[channel].strings),
         value |-> user_template]

\* valid_targets that looks at the kind's string fields only
valid_targets_StringsOnly(channel, targets) ==
    [ok |-> \A i \in 1..Len(targets) :
                targets[i][1] \in Range(VALID_ATTR[channel].strings),
     value |-> targets]

\* valid_targets(data_targets): ok is FALSE when it raises SystemExit
valid_targets(channel, targets) ==
    [ok |-> \A i \in 1..Len(targets) :
                targets[i][1] \in Range(VALID_ATTR[channel].strings)
                                    \cup Range(VALID_ATTR[channel].others),
     value |-> targets]

\* dict.get on a cache: "" stands for None (both are falsy, and only the
\* truth value of the result is tested)
CacheGet(cache, k) == IF k \in DOMAIN cache THEN cache[k] ELSE ""
CachePut(cache, k, v) == [x \in DOMAIN cache \cup {k} |-> IF x = k THEN v ELSE cache[x]]

\* the dynamic form of the cache key: f"{str_type}-{'-'.join(values)}"
DynamicKey(str_type, keys, data) ==
    str_type \o "-" \o str_join("-", [i \in 1..Len(keys) |-> DictGet(data, keys[i])])

\* What a call of get_formatted_string did:
\*   ret         the value returned: [kind |-> "str", value |-> s], or
\*               [kind |-> "None"] when the method falls off its end
\*   raised      "" or the exception that leaves the method
\*   stopped     TRUE when self.stop() was called
\*   hit         TRUE when the string came from the cache
\*   substituted TRUE when _customize_string ran
\*   custom_strings, custom_string_keys   the caches after the call
Returned(ret, raised, stopped, hit, substituted, cs, csk) ==
    [ret |-> ret, raised |-> raised, stopped |-> stopped, hit |-> hit,
     substituted |-> substituted, custom_strings |-> cs, custom_string_keys |-> csk]

StrValue(s) == [kind |-> "str", value |-> s]
NoneValue == [kind |-> "None"]

\* StoreDynamic that returns the string without storing it
StoreDynamic_NotStored(str_type, dynamic_string, key_list, data, cs, csk2) ==
    IF \A i \in 1..Len(key_list) : DictHas(data, key_list[i])
    THEN Returned(StrValue(dynamic_string), "", FALSE, FALSE, TRUE, cs, csk2)
    ELSE Returned(NoneValue, "", TRUE, FALSE, TRUE, cs, csk2)

\* get_formatted_string, the dynamic branch: dynamic_string is stored under
\* the dynamic key unless a key of key_list is missing from data
StoreDynamic(str_type, dynamic_string, key_list, data, cs, csk2) ==
    IF \A i \in 1..Len(key_list) : DictHas(data, key_list[i])
    THEN Returned(StrValue(dynamic_string), "", FALSE, FALSE, TRUE,
                  CachePut(cs, DynamicKey(str_type, key_list, data), dynamic_string), csk2)
    ELSE \* KeyError: logged, self.stop(), and the method returns None
         Returned(NoneValue, "", TRUE, FALSE, TRUE, cs, csk2)

\* CreateString that stores a static string under the dynamic form of the key
CreateString_StaticUnderDynamic(str_type, standard_string, keys, data, cs, csk2, channel) ==
    IF keys # <<>>
    THEN StoreDynamic(str_type, _customize_string(standard_string, data, TRUE, channel),
                      KeyList(standard_string), data, cs, csk2)
    ELSE Returned(StrValue(standard_string), "", FALSE, FALSE, TRUE,
                  CachePut(cs, str_type \o "-", standard_string), csk2)

\* get_formatted_string, "create new string": keys is the list _check_dynamic
\* has stored for str_type, csk2 the key lists after it
CreateString(str_type, standard_string, keys, data, cs, csk2, channel) ==
    IF keys # <<>>
    THEN StoreDynamic(str_type, _customize_string(standard_string, data, TRUE, channel),
                      KeyList(standard_string), data, cs, csk2)
    ELSE Returned(StrValue(standard_string), "", FALSE, FALSE, TRUE,
                  CachePut(cs, str_type, standard_string), csk2)

\* _check_dynamic(user_str, str_type): the key lists after the call
_check_dynamic(user_str, str_type, csk) ==
    CachePut(csk, str_type, _check_dynamic_keys(user_str))

\* Miss that falls back on the purpose instead of the channel name
Miss_PurposeAsDefault(str_type, user_template, standard_string, data, cs, csk, channel) ==
    IF user_template = ""
    THEN Returned(StrValue(str_type), "", FALSE, FALSE, FALSE,
                  CachePut(cs, str_type, str_type), csk)
    ELSE CreateString(str_type, standard_string, _check_dynamic_keys(standard_string),
                      data, cs, _check_dynamic(standard_string, str_type, csk), channel)

\* get_formatted_string after a cache miss
Miss(str_type, user_template, standard_string, data, cs, csk, channel) ==
    IF user_template = ""
    THEN Returned(StrValue(channel), "", FALSE, FALSE, FALSE,
                  CachePut(cs, str_type, channel), csk)
    ELSE CreateString(str_type, standard_string, _check_dynamic_keys(standard_string),
                      data, cs, _check_dynamic(standard_string, str_type, csk), channel)

\* get_formatted_string, the retrieval: static_hit and dynamic_hit are the two
\* cache reads, lookup_ok is FALSE when the join of the second raises
Lookup(str_type, user_template, data, cs, csk, channel, static_hit, lookup_ok, dynamic_hit) ==
    IF static_hit # ""
    THEN Returned(StrValue(static_hit), "", FALSE, TRUE, FALSE, cs, csk)
    ELSE IF ~lookup_ok
    THEN \* '-'.join of a list holding None
         Returned(NoneValue, "TypeError", FALSE, FALSE, FALSE, cs, csk)
    ELSE IF dynamic_hit # ""
    THEN Returned(StrValue(dynamic_hit), "", FALSE, TRUE, FALSE, cs, csk)
    ELSE Miss(str_type, user_template,
              _customize_string(user_template, data, FALSE, channel), data, cs, csk,
              channel)

LookupKeys(str_type, csk) == IF str_type \in DOMAIN csk THEN csk[str_type] ELSE <<>>

\* get_formatted_string(str_type, user_template, data) on an instance whose
\* caches are cs (custom_strings) and csk (custom_string_keys)
get_formatted_string(str_type, user_template, data, cs, csk, channel) ==
    Lookup(str_type, user_template, data, cs, csk, channel,
           CacheGet(cs, str_type),
           \A i \in 1..Len(LookupKeys(str_type, csk)) :
                DictHas(data, LookupKeys(str_type, csk)[i]),
           CacheGet(cs, DynamicKey(str_type, LookupKeys(str_type, csk), data)))

\* customize_data_package(data): [ok |-> TRUE, value |-> the new dict], or
\* [ok |-> FALSE] when data[k] raises KeyError
RECURSIVE ShapeFrom(_, _, _)
ShapeFrom(targets, data, acc) ==
    IF targets = <<>> THEN acc
    ELSE ShapeFrom(Tail(targets), data,
                   DictSet(acc, Head(targets)[2], DictGet(data, Head(targets)[1])))

\* customize_data_package that keeps the source names as keys
customize_data_package_SourceNames(targets, data) ==
    IF \A i \in 1..Len(targets) : DictHas(data, targets[i][1])
    THEN [ok |-> TRUE,
          value |-> [i \in 1..Len(targets) |->
                        <<targets[i][1], DictGet(data, targets[i][1])>>]]
    ELSE [ok |-> FALSE]

customize_data_package(targets, data) ==
    IF \A i \in 1..Len(targets) : DictHas(data, targets[i][1])
    THEN [ok |-> TRUE, value |-> ShapeFrom(targets, data, <<>>)]
    ELSE [ok |-> FALSE]

-----------------------------------------------------------------------------
(* Inputs: records, templates, shaping specs *)

EXCHANGE == "COINBASE"

\* the value number v (1 or 2) of a field
FieldValue(field, v) ==
    CASE field = "exchange"        -> EXCHANGE
      [] field = "symbol"          -> IF v = 1 THEN "BTC-USD" ELSE "ETH-USD"
      [] field = "side"            -> IF v = 1 THEN "buy" ELSE "sell"
      [] field = "type"            -> IF v = 1 THEN "limit" ELSE "market"
      [] field = "status"          -> IF v = 1 THEN "open" ELSE "filled"
      [] field = "interval"        -> IF v = 1 THEN "1m" ELSE "5m"
      [] field = "id"              -> IF v = 1 THEN "t1" ELSE "t2"
      [] field = "client_order_id" -> IF v = 1 THEN "c1" ELSE "c2"
      [] field = "account"         -> IF v = 1 THEN "main" ELSE "sub"
      [] field = "currency"        -> IF v = 1 THEN "BTC" ELSE "USD"
      [] field = "order_id"        -> IF v = 1 THEN "o1" ELSE "o2"
      [] field = "liquidity"       -> IF v = 1 THEN "maker" ELSE "taker"
      [] field = "closed"          -> (v = 1)
      [] field \in {"book", "delta", "raw"} -> <<field, v>>
      [] OTHER                     -> v

Fields(kind) == VALID_ATTR[kind].strings \o VALID_ATTR[kind].others

\* record number alt of a kind: 1 has every field at its first value, 2 at
\* its second, 3 differs from record 1 in the fields that are not strings,
\* and alt >= 4 differs from record 1 in field number alt - 2
MkRecord(kind, alt) ==
    [j \in 1..Len(Fields(kind)) |->
        <<Fields(kind)[j],
          FieldValue(Fields(kind)[j],
                     IF \/ alt = 2
                        \/ (alt = 3 /\ j > Len(VALID_ATTR[kind].strings))
                        \/ (alt >= 4 /\ j = alt - 2)
                     THEN 2 ELSE 1)>>]

\* a piece of a template: a keyword in one of the three cases, or literal text
Cases == {"upper", "lower", "title"}
Token(name, case) == [tok |-> name, case |-> case, text |-> ApplyCase(case, name)]
Literal(text) == [tok |-> "", case |-> "", text |-> text]

TemplateText(parts) == str_join("-", [i \in 1..Len(parts) |-> parts[i].text])

\* the dynamic keywords a template was written with
DynamicTokens(parts) ==
    {parts[i].tok : i \in 1..Len(parts)} \cap Range(DYNAMIC_KEYWORDS)

SeqsUpTo(S, n) == UNION {[1..k -> S] : k \in 0..n}

-----------------------------------------------------------------------------
(* Construction *)

\* self.stop(), as get_formatted_string calls it: the value it leaves in
\* self.running (the writer is halted)
stop == FALSE

NoCall == [op |-> "none"]

\* the state before __init__ runs, for given constructor arguments
InitWith(v, kind, tparts, kparts, targets, cfg) ==
    /\ variant = v
    /\ channel_name = kind
    /\ topic_parts = tparts
    /\ key_parts = kparts
    /\ targets_arg = targets
    /\ config_ok = cfg
    /\ pc = "new"
    /\ topic_template = ""
    /\ key_template = ""
    /\ data_targets = <<>>
    /\ custom_strings = <<>>
    /\ custom_string_keys = <<>>
    /\ running = FALSE
    /\ conn = "none"
    /\ broker_up \in BOOLEAN
    /\ produced = 0
    /\ queue = <<>>
    /\ updates = <<>>
    /\ index = 1
    /\ inflight = <<>>
    /\ pipe = <<>>
    /\ drains = 0
    /\ attempts = <<>>
    /\ failed = <<>>
    /\ sent = <<>>
    /\ errors = 0
    /\ stop_requested = FALSE
    /\ stop_at = [pc |-> "", pending |-> 0]
    /\ calls = 0
    /\ last = NoCall

topic_arg == TemplateText(topic_parts)
key_arg == TemplateText(key_parts)

\* KafkaInit that marks the instance running at construction
KafkaInit_RunningAtConstruction(channel, topic, key, targets) ==
    [ok |-> (key = "" \/ valid_template(channel, key, "key").ok)
            /\ (topic = "" \/ valid_template(channel, topic, "topic").ok)
            /\ (targets = <<>> \/ valid_targets(channel, targets).ok),
     running |-> TRUE,
     key_template |-> IF key # "" THEN valid_template(channel, key, "key").value ELSE "",
     topic_template |-> IF topic # "" THEN valid_template(channel, topic, "topic").value
                        ELSE "",
     data_targets |-> targets]

\* KafkaCallback.__init__: the fields it computes, ok FALSE on SystemExit
KafkaInit(channel, topic, key, targets) ==
    LET k == IF key # "" THEN valid_template(channel, key, "key")
                         ELSE [ok |-> TRUE, value |-> ""]
        t == IF topic # "" THEN valid_template(channel, topic, "topic")
                           ELSE [ok |-> TRUE, value |-> ""]
        d == IF targets # <<>> THEN valid_targets(channel, targets)
                               ELSE [ok |-> TRUE, value |-> <<>>]
    IN  [ok |-> k.ok /\ t.ok /\ d.ok, running |-> FALSE,
         key_template |-> k.value, topic_template |-> t.value, data_targets |-> d.value]

\* RedisCallback.__init__
RedisInit(channel, key, targets) ==
    LET k == IF key # "" THEN valid_template(channel, "key", key)
                         ELSE [ok |-> TRUE, value |-> ""]
        d == IF targets # <<>> THEN valid_targets(channel, targets)
                               ELSE [ok |-> TRUE, value |-> <<>>]
    IN  [ok |-> k.ok /\ d.ok, running |-> TRUE,
         key_template |-> k.value, topic_template |-> "", data_targets |-> d.value]

Construct ==
    /\ pc = "new"
    /\ \E r \in {IF variant = "kafka"
                  THEN KafkaInit(channel_name, topic_arg, key_arg, targets_arg)
                  ELSE RedisInit(channel_name, key_arg, targets_arg)} :
           IF r.ok
           THEN /\ pc' = "ready"
                /\ running' = r.running
                /\ key_template' = r.key_template
                /\ topic_template' = r.topic_template
                /\ data_targets' = r.data_targets
           ELSE /\ pc' = "exit"
                /\ UNCHANGED <<running, key_template, topic_template, data_targets>>
    /\ UNCHANGED <<configVars, writerVars, custom_strings, custom_string_keys, calls, last>>

-----------------------------------------------------------------------------
(* Direct calls of the mixin on a constructed instance *)

\* get_formatted_string('key', self.key_template, data)
ResolveRecord(data) ==
    /\ pc = "ready"
    /\ calls < MaxCalls
    /\ \E r \in {get_formatted_string("key", key_template, data, custom_strings,
                                     custom_string_keys, channel_name)} :
         /\ last' = [op |-> "resolve", data |-> data, ret |-> r.ret,
                     raised |-> r.raised, hit |-> r.hit,
                     substituted |-> r.substituted, cache_before |-> custom_strings,
                     before |-> last]
         /\ custom_strings' = r.custom_strings
         /\ custom_string_keys' = r.custom_string_keys
         /\ running' = IF r.stopped THEN stop ELSE running
    /\ calls' = calls + 1
    /\ UNCHANGED <<configVars, writerVars, pc, topic_template, key_template, data_targets>>

\* the same call for record number alt of the instance's kind
Resolve(alt) == ResolveRecord(MkRecord(channel_name, alt))

\* customize_data_package(data)
Shape(alt) ==
    /\ pc = "ready"
    /\ calls < MaxCalls
    /\ data_targets # <<>>
    /\ LET data == MkRecord(channel_name, alt)
       IN  last' = [op |-> "shape", data |-> data,
                    out |-> customize_data_package(data_targets, data), before |-> last]
    /\ calls' = calls + 1
    /\ UNCHANGED <<configVars, writerVars, pc, topic_template, key_template, data_targets,
                   custom_strings, custom_string_keys, running>>

MixinKinds == {"order_info", "fills"}
MixinTokens == {"exchange", "channel", "symbol", "side", "client_order_id"}
MixinParts == {Token(n, c) : n \in MixinTokens, c \in Cases} \cup {Literal("cryptofeed")}
MixinTemplates == SeqsUpTo(MixinParts, MaxParts)

TargetSources == {"price", "amount", "symbol", "volume"}
TargetNames == {"p", "a"}
MixinTargets ==
    {t \in SeqsUpTo(TargetSources \X TargetNames, MaxTargets) :
        \A i, j \in 1..Len(t) : t[i][1] = t[j][1] => i = j}

InitMixin ==
    \E kind \in MixinKinds, kparts \in MixinTemplates, targets \in MixinTargets :
        /\ kparts = <<>> \/ targets = <<>>
        /\ InitWith("zset", kind, <<>>, kparts, targets, TRUE)
        /\ ~broker_up

NextMixin ==
    \/ Construct
    \/ \E alt \in 1..MixinRecords : Resolve(alt)
    \/ \E alt \in 1..MixinRecords : Shape(alt)

SpecMixin == InitMixin /\ [][NextMixin]_vars

-----------------------------------------------------------------------------
(* Direct calls with records whose values hold the '-' of the cache key *)

\* order_info records of two instruments and two accounts
CacheSymbols == {"BTC-USD", "BTC-USD-PERP"}
CacheAccounts == {"main", "PERP-main"}
CacheRecords ==
    {DictSet(DictSet(MkRecord("order_info", 1), "symbol", sym), "account", acc) :
        sym \in CacheSymbols, acc \in CacheAccounts}

CacheParts ==
    {Token(n, c) : n \in {"symbol", "account"}, c \in {"upper", "lower"}}
        \cup {Token("exchange", "lower")}
CacheTemplates == SeqsUpTo(CacheParts, MaxParts)

InitCache ==
    \E kparts \in CacheTemplates :
        /\ InitWith("zset", "order_info", <<>>, kparts, <<>>, TRUE)
        /\ ~broker_up

NextCache ==
    \/ Construct
    \/ \E data \in CacheRecords : ResolveRecord(data)

SpecCache == InitCache /\ [][NextCache]_vars

-----------------------------------------------------------------------------
(* The writers *)

\* _default_serializer: json bytes of a dict, encoded bytes of a str; type
\* is the Python type of to_bytes
_default_serializer(type, to_bytes) ==
    IF type = "dict" THEN <<"json", to_bytes>> ELSE <<"bytes", to_bytes>>

\* f"{key}" of what get_formatted_string returned
FormatKey(ret) == IF ret.kind = "str" THEN ret.value ELSE "None"

Bump(n) == IF n < MaxErrors THEN n + 1 ELSE n

Ids(seq) == {seq[i].id : i \in 1..Len(seq)}

\* the records read_queue has taken from the queue so far
Drained == (1..produced) \ Ids(queue)

\* what the writer leaves unchanged in every step
feedVars == <<broker_up, produced, queue, stop_requested, stop_at, calls, last>>
instanceVars == <<topic_template, key_template, data_targets>>
cacheVars == <<custom_strings, custom_string_keys>>

\* the feed puts a record on the queue
Enqueue(alt) ==
    /\ pc \notin {"new", "exit"}
    /\ produced < MaxProduced
    /\ produced' = produced + 1
    /\ queue' = Append(queue, [id |-> produced + 1, data |-> MkRecord(channel_name, alt)])
    /\ UNCHANGED <<configVars, instanceVars, cacheVars, pc, running, conn, broker_up,
                   updates, index, inflight, pipe, drains, attempts, failed, sent, errors,
                   stop_requested, stop_at, calls, last>>

\* the application clears the running flag
Shutdown ==
    /\ pc \notin {"new", "exit"}
    /\ ~stop_requested
    /\ stop_requested' = TRUE
    /\ stop_at' = [pc |-> pc, pending |-> Cardinality(Drained \ Ids(attempts))]
    /\ running' = FALSE
    /\ UNCHANGED <<configVars, instanceVars, cacheVars, pc, conn, broker_up, produced,
                   queue, updates, index, inflight, pipe, drains, attempts, failed, sent,
                   errors, calls, last>>

\* the broker becomes reachable or unreachable
BrokerFlip ==
    /\ variant = "kafka"
    /\ pc \in {"connecting", "sleeping"}
    /\ broker_up' = ~broker_up
    /\ UNCHANGED <<configVars, instanceVars, cacheVars, pc, running, conn, produced,
                   queue, updates, index, inflight, pipe, drains, attempts, failed, sent,
                   errors, stop_requested, stop_at, calls, last>>

\* where the writer goes at the top of "while self.running"
LoopTop(flag) == IF flag THEN "waiting" ELSE "closing"

\* KafkaCallback.writer up to the first attempt of _connect
KafkaStart ==
    /\ variant = "kafka"
    /\ pc = "ready"
    /\ IF conn # "none"
       THEN /\ pc' = LoopTop(running)
            /\ UNCHANGED conn
       ELSE IF ~config_ok
       THEN /\ pc' = "exit"
            /\ UNCHANGED conn
       ELSE /\ conn' = "created"
            /\ pc' = IF running THEN LoopTop(running) ELSE "connecting"
    /\ UNCHANGED <<configVars, instanceVars, cacheVars, feedVars, running, updates, index,
                   inflight, pipe, drains, attempts, failed, sent, errors>>

\* _connect that gives up after a failed attempt
KafkaConnect_GivesUp ==
    /\ variant = "kafka"
    /\ pc = "connecting"
    /\ IF running
       THEN /\ pc' = LoopTop(running)
            /\ UNCHANGED <<running, conn, errors>>
       ELSE IF broker_up
       THEN /\ conn' = "started"
            /\ running' = TRUE
            /\ pc' = LoopTop(TRUE)
            /\ errors' = 0
       ELSE /\ errors' = Bump(errors)
            /\ pc' = "exit"
            /\ UNCHANGED <<running, conn>>
    /\ UNCHANGED <<configVars, instanceVars, cacheVars, feedVars, updates, index,
                   inflight, pipe, drains, attempts, failed, sent>>

\* _connect: one pass of "while not self.running"
KafkaConnect ==
    /\ variant = "kafka"
    /\ pc = "connecting"
    /\ IF running
       THEN /\ pc' = LoopTop(running)
            /\ UNCHANGED <<running, conn, errors>>
       ELSE IF broker_up
       THEN /\ conn' = "started"
            /\ running' = TRUE
            /\ pc' = LoopTop(TRUE)
            /\ errors' = 0
       ELSE \* KafkaConnectionError: logged, then asyncio.sleep(10)
            /\ errors' = Bump(errors)
            /\ pc' = "sleeping"
            /\ UNCHANGED <<running, conn>>
    /\ UNCHANGED <<configVars, instanceVars, cacheVars, feedVars, updates, index,
                   inflight, pipe, drains, attempts, failed, sent>>

\* _connect: asyncio.sleep(10) returns
KafkaWake ==
    /\ variant = "kafka"
    /\ pc = "sleeping"
    /\ pc' = "connecting"
    /\ UNCHANGED <<configVars, instanceVars, cacheVars, feedVars, running, conn, updates,
                   index, inflight, pipe, drains, attempts, failed, sent, errors>>

\* the Redis writers up to the first test of "while self.running"
RedisStart ==
    /\ variant \in {"zset", "stream"}
    /\ pc = "ready"
    /\ conn' = "open"
    /\ pc' = LoopTop(running)
    /\ UNCHANGED <<configVars, instanceVars, cacheVars, feedVars, running, updates, index,
                   inflight, pipe, drains, attempts, failed, sent, errors>>

\* read_queue: wait for a record, then take everything that is buffered
read_queue(q, batch) ==
    [i \in 1..Len(q) |-> [id |-> q[i].id, batch |-> batch, data |-> q[i].data]]

Drain ==
    /\ pc = "waiting"
    /\ queue # <<>>
    /\ updates' = read_queue(queue, drains + 1)
    /\ drains' = drains + 1
    /\ queue' = <<>>
    /\ index' = 1
    /\ pipe' = <<>>
    /\ pc' = "batch"
    /\ UNCHANGED <<configVars, instanceVars, cacheVars, running, conn, broker_up, produced,
                   inflight, attempts, failed, sent, errors, stop_requested, stop_at,
                   calls, last>>

\* a message handed to the sink; id, batch and data (the record as drained)
\* say which record it was made from
Message(u, dest, key, value, score) ==
    [id |-> u.id, batch |-> u.batch, data |-> u.data, dest |-> dest, key |-> key,
     value |-> value, score |-> score]

Handed(u) == [id |-> u.id, batch |-> u.batch]

\* a routing string that needs no call of get_formatted_string
Plain(s, cs, csk) == Returned(StrValue(s), "", FALSE, FALSE, FALSE, cs, csk)

RoutingResult(t, k) ==
    [topic |-> t.ret, key |-> k.ret,
     raised |-> IF t.raised # "" THEN t.raised ELSE k.raised,
     stopped |-> t.stopped \/ k.stopped,
     custom_strings |-> k.custom_strings,
     custom_string_keys |-> k.custom_string_keys]

\* key = get_formatted_string('key', ...) if self.key_template else channel_name
RoutingKey(t, data) ==
    RoutingResult(t,
        IF t.raised # "" THEN t
        ELSE IF key_template # ""
        THEN get_formatted_string("key", key_template, data, t.custom_strings,
                                  t.custom_string_keys, channel_name)
        ELSE Plain(channel_name, t.custom_strings, t.custom_string_keys))

\* the routing strings of one record: topic (Kafka only) then key, each as
\* get_formatted_string returns it, with the caches after both calls
Routing(data) ==
    RoutingKey(IF variant = "kafka"
               THEN get_formatted_string("topic", topic_template, data, custom_strings,
                                         custom_string_keys, channel_name)
               ELSE Plain("", custom_strings, custom_string_keys),
               data)

\* AfterRecord of a loop that also tests the running flag between records
AfterRecord_TestsFlag(i, flag, atEnd) ==
    IF i < Len(updates) /\ flag THEN "batch"
    ELSE IF i < Len(updates) THEN "closing"
    ELSE atEnd

\* where the writer goes after the record at position i of the batch: on to
\* the next record, or to atEnd after the last
AfterRecord(i, flag, atEnd) == IF i < Len(updates) THEN "batch" ELSE atEnd

\* KafkaSend that does not wait for the acknowledgment
KafkaSend_NoAwait ==
    /\ variant = "kafka"
    /\ pc = "batch"
    /\ index <= Len(updates)
    /\ \E u \in {updates[index]} :
        \E r \in {Routing(u.data)},
           shaped \in {IF data_targets # <<>>
                       THEN customize_data_package(data_targets, u.data)
                       ELSE [ok |-> TRUE, value |-> u.data]} :
        \E flag \in {IF r.stopped THEN stop ELSE running} :
           /\ custom_strings' = r.custom_strings
           /\ custom_string_keys' = r.custom_string_keys
           /\ running' = flag
           /\ IF r.raised # "" \/ ~shaped.ok \/ r.key.kind # "str"
              THEN \* an exception outside the try block ends the writer task
                   /\ pc' = "crashed"
                   /\ UNCHANGED <<index, updates, inflight, attempts, failed>>
              ELSE /\ attempts' = Append(attempts, Handed(u))
                   /\ \/ /\ r.topic.kind = "str"
                         /\ inflight' = Append(inflight,
                                          Message(u, r.topic.value,
                                                  _default_serializer("str", r.key.value),
                                                  _default_serializer("dict", shaped.value),
                                                  0))
                         /\ index' = IF index < Len(updates) THEN index + 1 ELSE 1
                         /\ updates' = IF index < Len(updates) THEN updates ELSE <<>>
                         /\ pc' = AfterRecord(index, flag, LoopTop(flag))
                         /\ UNCHANGED failed
                      \/ \* producer.send raises: logged, on to the next record
                         /\ failed' = Append(failed, Handed(u))
                         /\ index' = IF index < Len(updates) THEN index + 1 ELSE 1
                         /\ updates' = IF index < Len(updates) THEN updates ELSE <<>>
                         /\ pc' = AfterRecord(index, flag, LoopTop(flag))
                         /\ UNCHANGED inflight
    /\ UNCHANGED <<configVars, instanceVars, feedVars, conn, pipe, drains, sent, errors>>

\* KafkaCallback.writer: the body of the for loop up to "await producer.send"
KafkaSend ==
    /\ variant = "kafka"
    /\ pc = "batch"
    /\ index <= Len(updates)
    /\ \E u \in {updates[index]} :
        \E r \in {Routing(u.data)},
           shaped \in {IF data_targets # <<>>
                       THEN customize_data_package(data_targets, u.data)
                       ELSE [ok |-> TRUE, value |-> u.data]} :
        \E flag \in {IF r.stopped THEN stop ELSE running} :
           /\ custom_strings' = r.custom_strings
           /\ custom_string_keys' = r.custom_string_keys
           /\ running' = flag
           /\ IF r.raised # "" \/ ~shaped.ok \/ r.key.kind # "str"
              THEN \* an exception outside the try block ends the writer task
                   /\ pc' = "crashed"
                   /\ UNCHANGED <<index, updates, inflight, attempts, failed>>
              ELSE /\ attempts' = Append(attempts, Handed(u))
                   /\ \/ /\ r.topic.kind = "str"
                         /\ inflight' = <<Message(u, r.topic.value,
                                                  _default_serializer("str", r.key.value),
                                                  _default_serializer("dict", shaped.value),
                                                  0)>>
                         /\ pc' = "await_ack"
                         /\ UNCHANGED <<index, updates, failed>>
                      \/ \* producer.send raises: logged, on to the next record
                         /\ failed' = Append(failed, Handed(u))
                         /\ index' = IF index < Len(updates) THEN index + 1 ELSE 1
                         /\ updates' = IF index < Len(updates) THEN updates ELSE <<>>
                         /\ pc' = AfterRecord(index, flag, LoopTop(flag))
                         /\ UNCHANGED inflight
    /\ UNCHANGED <<configVars, instanceVars, feedVars, conn, pipe, drains, sent, errors>>

AckOutcomes == {"ack", "RequestTimedOutError", "NodeNotReadyError", "Exception"}

\* KafkaAck without the except clauses: the exception ends the writer task
KafkaAck_Uncaught ==
    /\ variant = "kafka"
    /\ pc = "await_ack"
    /\ \E outcome \in AckOutcomes :
          IF outcome = "ack"
          THEN /\ sent' = sent \o inflight
               /\ index' = IF index < Len(updates) THEN index + 1 ELSE 1
               /\ updates' = IF index < Len(updates) THEN updates ELSE <<>>
               /\ pc' = AfterRecord(index, running, LoopTop(running))
               /\ UNCHANGED failed
          ELSE /\ failed' = Append(failed, Handed(inflight[1]))
               /\ pc' = "crashed"
               /\ UNCHANGED <<sent, index, updates>>
    /\ inflight' = <<>>
    /\ UNCHANGED <<configVars, instanceVars, cacheVars, feedVars, running, conn, pipe,
                   drains, attempts, errors>>

\* KafkaCallback.writer: "await send_future" returns or raises
KafkaAck ==
    /\ variant = "kafka"
    /\ pc = "await_ack"
    /\ \E outcome \in AckOutcomes :
          IF outcome = "ack"
          THEN sent' = sent \o inflight /\ UNCHANGED failed
          ELSE \* logged, on to the next record
               failed' = Append(failed, Handed(inflight[1])) /\ UNCHANGED sent
    /\ inflight' = <<>>
    /\ index' = IF index < Len(updates) THEN index + 1 ELSE 1
    /\ updates' = IF index < Len(updates) THEN updates ELSE <<>>
    /\ pc' = AfterRecord(index, running, LoopTop(running))
    /\ UNCHANGED <<configVars, instanceVars, cacheVars, feedVars, running, conn, pipe,
                   drains, attempts, errors>>

score_key == "timestamp"

\* RedisStreamCallback.writer: the in-place flattening of one nested field
Flatten1(update) ==
    IF DictHas(update, "delta")
    THEN DictSet(update, "delta", <<"json", DictGet(update, "delta")>>)
    ELSE IF DictHas(update, "book")
    THEN DictSet(update, "book", <<"json", DictGet(update, "book")>>)
    ELSE IF DictHas(update, "closed")
    THEN DictSet(update, "closed", <<"str", DictGet(update, "closed")>>)
    ELSE update

\* RedisAdd that applies the shaping spec before it computes the key
RedisAdd_ShapesFirst ==
    /\ variant \in {"zset", "stream"}
    /\ pc = "batch"
    /\ index <= Len(updates)
    /\ \E u \in {updates[index]} :
        \E has_score \in {variant = "stream" \/ DictHas(u.data, score_key)},
           update \in {IF variant = "stream" THEN Flatten1(u.data) ELSE u.data} :
        \E shaped \in {IF data_targets # <<>>
                       THEN customize_data_package(data_targets, update)
                       ELSE [ok |-> TRUE, value |-> update]} :
        \E r \in {Routing(IF shaped.ok THEN shaped.value ELSE u.data)} :
           /\ custom_strings' = r.custom_strings
           /\ custom_string_keys' = r.custom_string_keys
           /\ running' = IF r.stopped THEN stop ELSE running
           /\ IF r.raised # "" \/ ~has_score \/ ~shaped.ok
              THEN \* the exception ends the writer task
                   /\ pc' = "crashed"
                   /\ updates' = IF r.raised = "" /\ has_score
                                 THEN [updates EXCEPT ![index].data = update]
                                 ELSE updates
                   /\ UNCHANGED <<index, pipe>>
              ELSE /\ pipe' = Append(pipe,
                            IF variant = "zset"
                            THEN Message(u, FormatKey(r.key), <<>>,
                                         <<"json", shaped.value>>,
                                         DictGet(u.data, score_key))
                            ELSE Message(u, FormatKey(r.key), <<>>, shaped.value, 0))
                   /\ updates' = [updates EXCEPT ![index].data = update]
                   /\ index' = index + 1
                   /\ pc' = AfterRecord(index, TRUE, "execute")
    /\ UNCHANGED <<configVars, instanceVars, feedVars, conn, inflight, drains, attempts,
                   failed, sent, errors>>

\* the Redis writers: the body of the for loop
RedisAdd ==
    /\ variant \in {"zset", "stream"}
    /\ pc = "batch"
    /\ index <= Len(updates)
    /\ \E u \in {updates[index]} :
        \E r \in {Routing(u.data)},
           has_score \in {variant = "stream" \/ DictHas(u.data, score_key)},
           update \in {IF variant = "stream" THEN Flatten1(u.data) ELSE u.data} :
        \E shaped \in {IF data_targets # <<>>
                       THEN customize_data_package(data_targets, update)
                       ELSE [ok |-> TRUE, value |-> update]} :
           /\ custom_strings' = r.custom_strings
           /\ custom_string_keys' = r.custom_string_keys
           /\ running' = IF r.stopped THEN stop ELSE running
           /\ IF r.raised # "" \/ ~has_score \/ ~shaped.ok
              THEN \* the exception ends the writer task
                   /\ pc' = "crashed"
                   /\ updates' = IF r.raised = "" /\ has_score
                                 THEN [updates EXCEPT ![index].data = update]
                                 ELSE updates
                   /\ UNCHANGED <<index, pipe>>
              ELSE /\ pipe' = Append(pipe,
                            IF variant = "zset"
                            THEN Message(u, FormatKey(r.key), <<>>,
                                         <<"json", shaped.value>>,
                                         DictGet(u.data, score_key))
                            ELSE Message(u, FormatKey(r.key), <<>>, shaped.value, 0))
                   /\ updates' = [updates EXCEPT ![index].data = update]
                   /\ index' = index + 1
                   /\ pc' = AfterRecord(index, TRUE, "execute")
    /\ UNCHANGED <<configVars, instanceVars, feedVars, conn, inflight, drains, attempts,
                   failed, sent, errors>>

\* the Redis writers: "await pipe.execute()" returns or raises
RedisExecute ==
    /\ variant \in {"zset", "stream"}
    /\ pc = "execute"
    /\ attempts' = attempts \o [i \in 1..Len(pipe) |-> Handed(pipe[i])]
    /\ \/ /\ sent' = sent \o pipe
          /\ pc' = LoopTop(running)
       \/ \* the round trip fails: the exception ends the writer task
          /\ pc' = "crashed"
          /\ UNCHANGED sent
    /\ pipe' = <<>>
    /\ updates' = <<>>
    /\ index' = 1
    /\ UNCHANGED <<configVars, instanceVars, cacheVars, feedVars, running, conn, inflight,
                   drains, failed, errors>>

\* after the loop: producer.stop() / conn.close()
Close ==
    /\ pc = "closing"
    /\ conn' = "closed"
    /\ pc' = "closed"
    /\ UNCHANGED <<configVars, instanceVars, cacheVars, feedVars, running, updates, index,
                   inflight, pipe, drains, attempts, failed, sent, errors>>

-----------------------------------------------------------------------------
(* The writers' specification *)

Variants == {"kafka", "zset", "stream"}
WriterKinds == {"trades"}

\* 'Exchange-CHANNEL-SYMBOL' and 'cryptofeed-symbol-side' of the demo, a
\* template of static keywords only, and a keyword trades records do not carry
TopicDemo == <<Token("exchange", "title"), Token("channel", "upper"), Token("symbol", "upper")>>
KeyDemo == <<Literal("cryptofeed"), Token("symbol", "lower"), Token("side", "lower")>>
StaticDemo == <<Token("exchange", "lower"), Token("channel", "lower")>>
BadDemo == <<Token("status", "lower")>>

WriterTopics == {<<>>, TopicDemo, StaticDemo, BadDemo}
WriterKeys == {<<>>, KeyDemo}
\* the topic and key pairs a Kafka sink is constructed with: a key comes with
\* the demo's topic, as in the demo's TradeKafka
KafkaTemplates == {t \in WriterTopics \X WriterKeys : t[2] # <<>> <=> t[1] = TopicDemo}
RedisKeys == {<<>>, TopicDemo, KeyDemo, StaticDemo, BadDemo}
\* no shaping, a spec that renames two fields and drops the others, and a spec
\* naming a field ('volume') that trades records do not have
ShapeDemo == << <<"price", "p">>, <<"amount", "a">> >>
BadShapeDemo == << <<"symbol", "s">>, <<"volume", "v">> >>
WriterTargets == {<<>>, ShapeDemo, BadShapeDemo}

Init ==
    \E v \in Variants, kind \in WriterKinds, targets \in WriterTargets :
        \/ /\ v = "kafka"
           /\ \E t \in KafkaTemplates, cfg \in BOOLEAN :
                InitWith(v, kind, t[1], t[2], targets, cfg)
        \/ /\ v # "kafka"
           /\ \E kparts \in RedisKeys : InitWith(v, kind, <<>>, kparts, targets, TRUE)
           /\ broker_up

Next ==
    \/ Construct
    \/ \E alt \in 1..NumRecords : Enqueue(alt)
    \/ Shutdown
    \/ BrokerFlip
    \/ KafkaStart
    \/ KafkaConnect
    \/ KafkaWake
    \/ RedisStart
    \/ Drain
    \/ KafkaSend
    \/ KafkaAck
    \/ RedisAdd
    \/ RedisExecute
    \/ Close

Spec == Init /\ [][Next]_vars

-----------------------------------------------------------------------------
(* The writers under a fair event loop *)

\* a step of the instance: its construction or a step of its writer task
WriterStep ==
    \/ Construct
    \/ KafkaStart
    \/ KafkaConnect
    \/ KafkaWake
    \/ RedisStart
    \/ Drain
    \/ KafkaSend
    \/ KafkaAck
    \/ RedisAdd
    \/ RedisExecute
    \/ Close

\* the event loop resumes the writer task whenever what it awaits is there:
\* an awaited call of the sink returns or raises, and read_queue returns once
\* the queue holds a record.  The feed, the application and the broker are
\* under no obligation.
\* sinks constructed without template and without shaping spec
InitLive ==
    \E v \in Variants, kind \in WriterKinds :
        /\ InitWith(v, kind, <<>>, <<>>, <<>>, TRUE)
        /\ v # "kafka" => broker_up

SpecLive == InitLive /\ [][Next]_vars /\ WF_vars(WriterStep)

-----------------------------------------------------------------------------
(* The writers fed with book records, complete and incomplete *)

\* a record without one of its fields
Without(data, field) ==
    LET Keep(e) == e[1] # field
    IN  SelectSeq(data, Keep)

\* the fields an incomplete record may lack: one a key template reads, one a
\* shaping spec reads
MissingFields == {"symbol", "delta"}

\* the feed puts a record on the queue that lacks a field of its kind
EnqueuePartial(field) ==
    /\ pc \notin {"new", "exit"}
    /\ produced < MaxProduced
    /\ DictHas(MkRecord(channel_name, 1), field)
    /\ produced' = produced + 1
    /\ queue' = Append(queue, [id |-> produced + 1,
                               data |-> Without(MkRecord(channel_name, 1), field)])
    /\ UNCHANGED <<configVars, instanceVars, cacheVars, pc, running, conn, broker_up,
                   updates, index, inflight, pipe, drains, attempts, failed, sent, errors,
                   stop_requested, stop_at, calls, last>>

BookKinds == {"book"}

\* the key 'cryptofeed-symbol' of the demo's BookKafka, and a shaping spec
\* that keeps the symbol and the delta of a book record
SymbolKey == <<Literal("cryptofeed"), Token("symbol", "lower")>>
BookShape == << <<"symbol", "s">>, <<"delta", "d">> >>
BookTargets == {<<>>, BookShape}

InitBook ==
    \E v \in Variants, kind \in BookKinds, targets \in BookTargets :
        \/ /\ v = "kafka"
           /\ InitWith(v, kind, <<>>, <<>>, targets, TRUE)
        \/ /\ v # "kafka"
           /\ \E kparts \in {<<>>, SymbolKey} : InitWith(v, kind, <<>>, kparts, targets, TRUE)
           /\ broker_up

NextBook ==
    \/ Next
    \/ \E field \in MissingFields : EnqueuePartial(field)

SpecBook == InitBook /\ [][NextBook]_vars

-----------------------------------------------------------------------------
(* What the constructor arguments ask for *)

\* a template written with a dynamic keyword the kind has no string field for
HasInvalidToken(parts, kind) ==
    \E i \in 1..Len(parts) :
        /\ parts[i].tok \in Range(DYNAMIC_KEYWORDS)
        /\ parts[i].tok \notin Range(VALID_ATTR[kind].strings)

\* the value a keyword stands for: the sink's channel name, or the record's field
ExpectedValue(tok, data, channel) ==
    IF tok = "channel" THEN channel ELSE DictGet(data, tok)

\* the record carries every field the template names
Carries(parts, data) ==
    \A i \in 1..Len(parts) : parts[i].tok \in {"", "channel"} \/ DictHas(data, parts[i].tok)

\* the template with every keyword replaced by its value in the keyword's case
Render(parts, data, channel) ==
    str_join("-", [i \in 1..Len(parts) |->
                      IF parts[i].tok = "" THEN parts[i].text
                      ELSE ApplyCase(parts[i].case,
                                     ExpectedValue(parts[i].tok, data, channel))])

-----------------------------------------------------------------------------
(* C1 *)

\* C1: a sink constructed with a template that holds a dynamic keyword which
\* is no string field of its kind fails in the constructor (SystemExit): it
\* never gets past construction, so its writer never runs.
C1_InvalidTemplateFails ==
    (HasInvalidToken(topic_parts, channel_name) \/ HasInvalidToken(key_parts, channel_name))
        => pc \in {"new", "exit"}

-----------------------------------------------------------------------------
(* C2 *)

\* C2: a template written only with literal text, static keywords and dynamic
\* keywords that are string fields of the kind passes validation and is
\* stored unchanged.
C2_ValidTemplateAccepted ==
    (/\ variant \in {"zset", "stream"}
     /\ pc # "new"
     /\ ~HasInvalidToken(key_parts, channel_name)
     /\ valid_targets(channel_name, targets_arg).ok)
        => pc # "exit" /\ key_template = key_arg

-----------------------------------------------------------------------------
(* C3 *)

\* C3: every message the Kafka writer sends goes to the topic, and carries
\* the key, obtained by resolving the constructor's topic and key templates
\* against the record it was made from.
C3_KafkaRoutesByTemplates ==
    variant = "kafka" =>
        \A i \in 1..Len(sent) :
            /\ (topic_parts # <<>> /\ Carries(topic_parts, sent[i].data))
                  => sent[i].dest = Render(topic_parts, sent[i].data, channel_name)
            /\ (key_parts # <<>> /\ Carries(key_parts, sent[i].data))
                  => sent[i].key = <<"bytes", Render(key_parts, sent[i].data, channel_name)>>

-----------------------------------------------------------------------------
(* C4 *)

\* C4: whenever substitution runs on a record that carries the template's
\* fields, the string returned is the template with every keyword replaced by
\* its value in the case of the keyword (lower, Title or UPPER) and all
\* other text unchanged.
C4_CasePreserved ==
    (last.op = "resolve" /\ last.substituted /\ Carries(key_parts, last.data))
        => last.ret = StrValue(Render(key_parts, last.data, channel_name))

\* a template with a Title-case dynamic keyword and an UPPER-case static
\* keyword has been substituted
C4_Witness ==
    /\ last.op = "resolve"
    /\ last.substituted
    /\ last.ret.kind = "str"
    /\ \E i, j \in 1..Len(key_parts) :
          /\ key_parts[i].case = "title"
          /\ key_parts[i].tok \in Range(DYNAMIC_KEYWORDS)
          /\ key_parts[j].case = "upper"
          /\ key_parts[j].tok \in Range(STANDARD_KEYWORDS)

-----------------------------------------------------------------------------
(* C5 *)

\* the calls of get_formatted_string made up to and including call
RECURSIVE Resolves(_)
Resolves(call) ==
    IF call.op = "none" THEN {}
    ELSE (IF call.op = "resolve" THEN {call} ELSE {}) \cup Resolves(call.before)

\* two records agree on the fields the template's dynamic keywords name
SameDynamic(d1, d2) ==
    \A tok \in DynamicTokens(key_parts) : DictGet(d1, tok) = DictGet(d2, tok)

\* C5: once a record has been resolved, a later record with the same values
\* of the template's dynamic fields gets the identical string from the
\* cache: substitution does not run and the cache is left as it was.
C5_CacheIdempotent ==
    last.op = "resolve" =>
        \A e \in Resolves(last.before) :
            (e.ret.kind = "str" /\ SameDynamic(e.data, last.data))
                => /\ last.ret = e.ret
                   /\ last.hit
                   /\ ~last.substituted
                   /\ custom_strings = last.cache_before

\* a dynamic template resolved a second time for the same dynamic values, by
\* a record that differs elsewhere
C5_Witness ==
    /\ last.op = "resolve"
    /\ DynamicTokens(key_parts) # {}
    /\ last.hit
    /\ \E e \in Resolves(last.before) :
          e.ret.kind = "str" /\ SameDynamic(e.data, last.data) /\ e.data # last.data

-----------------------------------------------------------------------------
(* C6 *)

\* C6: a template without dynamic keyword resolves to one string whatever
\* the record, and from the second resolution on that string is the cache
\* entry stored under the purpose alone.
C6_StaticTemplateConstant ==
    (last.op = "resolve" /\ key_parts # <<>> /\ DynamicTokens(key_parts) = {})
        => /\ last.ret.kind = "str"
           /\ \A e \in Resolves(last.before) :
                 /\ last.ret = e.ret
                 /\ last.hit
                 /\ CacheGet(last.cache_before, "key") = last.ret.value

\* a static template resolved for two different records
C6_Witness ==
    /\ last.op = "resolve"
    /\ key_parts # <<>>
    /\ DynamicTokens(key_parts) = {}
    /\ \E i \in 1..Len(key_parts) : key_parts[i].tok \in Range(STANDARD_KEYWORDS)
    /\ \E e \in Resolves(last.before) : e.data # last.data

-----------------------------------------------------------------------------
(* C7 *)

\* the destination names of a shaping spec, each once, in order of first use
Destinations(targets) ==
    LET First(i) == \A j \in 1..(i - 1) : targets[j][2] # targets[i][2]
        idx == SelectSeq([i \in 1..Len(targets) |-> i], First)
    IN  [n \in 1..Len(idx) |-> targets[idx[n]][2]]

\* the source field a destination name takes its value from: the last one
\* the spec maps to it
SourceOf(targets, dest) ==
    targets[CHOOSE i \in 1..Len(targets) :
                /\ targets[i][2] = dest
                /\ \A j \in (i + 1)..Len(targets) : targets[j][2] # dest][1]

\* C7: the shaped record's keys are the spec's destination names, each once,
\* in the order the spec first names them; each holds the value of the last
\* source field the spec maps to it; nothing else is in the record.
C7_ShapedRecord ==
    (last.op = "shape" /\ last.out.ok)
        => /\ DictKeys(last.out.value) = Destinations(data_targets)
           /\ \A i \in 1..Len(last.out.value) :
                 last.out.value[i][2] =
                    DictGet(last.data, SourceOf(data_targets, last.out.value[i][1]))

\* a record shaped by a spec of two entries that renames and reorders
C7_Witness ==
    /\ last.op = "shape"
    /\ last.out.ok
    /\ Len(last.out.value) = 2
    /\ Len(last.data) > 2
    /\ DictKeys(last.out.value) = <<"a", "p">>

-----------------------------------------------------------------------------
(* C8 *)

C8_Inv ==
    variant = "kafka" =>
        /\ \A i, j \in 1..Len(attempts) : attempts[i].id = attempts[j].id => i = j
        /\ Ids(failed) \cap Ids(sent) = {}
        /\ pc \in {"waiting", "closing", "closed"}
              => /\ Ids(attempts) = Drained
                 /\ Ids(sent) = Drained \ Ids(failed)

C8_Step ==
    (variant = "kafka" /\ failed' # failed)
        => /\ index < Len(updates)
                => pc' = "batch" /\ index' = index + 1 /\ updates' = updates
           /\ index >= Len(updates) => pc' = LoopTop(running')

\* C8: in the Kafka writer a failed send or acknowledgment of one record
\* leaves the loop running: the next record of the batch is processed, after
\* the last record the loop returns to its head, every record of a finished
\* batch has been sent exactly once and all but the failed ones are accepted.
C8_SendFailureIsolated == [](C8_Inv) /\ [][C8_Step]_vars

\* a record failed, a later record of the same batch was accepted, and the
\* loop has drained another batch since
C8_Witness ==
    /\ variant = "kafka"
    /\ \E i \in 1..Len(failed), j \in 1..Len(sent) :
          /\ failed[i].batch = sent[j].batch
          /\ failed[i].id < sent[j].id
          /\ drains > failed[i].batch

-----------------------------------------------------------------------------
(* C9 *)

\* C9: when the connection is closed, every record drained from the queue
\* has been handed to the sink (sent, or in a pipeline that was executed),
\* also when the running flag was cleared in the middle of a batch.
C9_DrainedBeforeClose ==
    conn = "closed" => Drained \subseteq Ids(attempts)

\* the flag was cleared in a batch with two records still to be handed over,
\* and the connection is closed
C9_Witness ==
    /\ conn = "closed"
    /\ stop_at.pc \in {"batch", "await_ack", "execute"}
    /\ stop_at.pending >= 2
    /\ Len(attempts) >= 2

-----------------------------------------------------------------------------
(* C10 *)

C10_Inv ==
    (variant = "kafka" /\ pc \in {"connecting", "sleeping"})
        => /\ ~running
           /\ conn = "created"
           /\ Drained = {}
           /\ updates = <<>>
           /\ attempts = <<>>
           /\ sent = <<>>

C10_Step ==
    variant = "kafka" =>
        /\ (pc = "connecting" /\ ~broker_up) => pc' \in {"connecting", "sleeping"}
        /\ pc = "sleeping" => pc' \in {"sleeping", "connecting"}

\* C10: while the broker cannot be reached the Kafka writer only alternates
\* between a connection attempt and the delay that follows its failure; it
\* never exits or closes, and it drains and sends nothing.
C10_RetriesForever == [](C10_Inv) /\ [][C10_Step]_vars

\* a third attempt is about to be made after two failures, with a record
\* waiting on the queue
C10_Witness ==
    /\ variant = "kafka"
    /\ pc = "connecting"
    /\ ~broker_up
    /\ errors >= 2
    /\ queue # <<>>

-----------------------------------------------------------------------------
(* C11 *)

\* every message the writer has built so far
Built == Range(sent) \cup Range(pipe) \cup Range(inflight)

\* C11: a sink constructed without a template for a purpose routes every
\* record by its channel name for that purpose: the Kafka topic and the Kafka
\* key (as bytes), and the Redis key.
C11_NoTemplateChannelName ==
    \A m \in Built :
        /\ (variant = "kafka" /\ topic_parts = <<>>) => m.dest = channel_name
        /\ (variant = "kafka" /\ key_parts = <<>>) => m.key = <<"bytes", channel_name>>
        /\ (variant # "kafka" /\ key_parts = <<>>) => m.dest = channel_name

\* a Kafka sink without topic and key has had two different records accepted
C11_Witness ==
    /\ variant = "kafka"
    /\ topic_parts = <<>>
    /\ key_parts = <<>>
    /\ \E i, j \in 1..Len(sent) : sent[i].data # sent[j].data

-----------------------------------------------------------------------------
(* C12 *)

\* every source key of a shaping spec is a field of the kind
ValidSources(targets, kind) ==
    \A i \in 1..Len(targets) : targets[i][1] \in Range(Fields(kind))

C12_Inv ==
    /\ data_targets # <<>> => ValidSources(data_targets, channel_name)
    /\ ~ValidSources(targets_arg, channel_name) => pc \in {"new", "exit"} /\ Built = {}

C12_Step ==
    (pc = "new" /\ pc' # "new")
        => /\ ~ValidSources(targets_arg, channel_name) => pc' = "exit"
           /\ (ValidSources(targets_arg, channel_name)
                    /\ topic_parts = <<>> /\ key_parts = <<>>)
                 => pc' = "ready" /\ data_targets' = targets_arg

\* C12: construction with a shaping spec fails when a source key is no field
\* of the kind (no writer runs, no record is shaped) and, templates aside,
\* succeeds with the spec stored unchanged when every source key is a field
\* of the kind.
C12_TargetsValidated == [](C12_Inv) /\ [][C12_Step]_vars

\* a sink given no template and a spec with a source key that trades records
\* do not have has left its constructor by SystemExit
C12_Witness ==
    /\ pc = "exit"
    /\ topic_parts = <<>>
    /\ key_parts = <<>>
    /\ config_ok
    /\ targets_arg # <<>>
    /\ ~ValidSources(targets_arg, channel_name)

-----------------------------------------------------------------------------
(* C13 *)

\* a stored template substituted against a record, without the cache
RouteOf(template, data) ==
    IF template = "" THEN channel_name
    ELSE _customize_string(_customize_string(template, data, FALSE, channel_name),
                           data, TRUE, channel_name)

\* the record a message publishes
PayloadOf(m) == IF variant = "stream" THEN m.value ELSE m.value[2]

\* the routing strings of m are the sink's templates resolved against the
\* record as it was drained, and its payload is that record, shaped
Routed(m) ==
    /\ variant = "kafka"
          => /\ m.dest = RouteOf(topic_template, m.data)
             /\ m.key = <<"bytes", RouteOf(key_template, m.data)>>
    /\ variant # "kafka" => m.dest = RouteOf(key_template, m.data)
    /\ data_targets # <<>> => DictKeys(PayloadOf(m)) = Destinations(data_targets)

\* C13: the routing strings of every message a writer builds are the sink's
\* templates resolved against the record as it was drained, whatever the
\* shaping spec keeps of it; the payload holds only the destination fields
\* of the spec.
C13_RoutedBeforeShaping ==
    [][\A m \in (Range(sent') \cup Range(pipe') \cup Range(inflight')) \ Built :
            Routed(m)]_vars

\* a record was published under a key made of its symbol and side by a sink
\* whose shaping spec keeps neither field
C13_Witness ==
    /\ variant \in {"zset", "stream"}
    /\ key_parts = KeyDemo
    /\ data_targets = ShapeDemo
    /\ \E m \in Range(sent) :
          /\ m.dest = Render(KeyDemo, m.data, channel_name)
          /\ ~DictHas(PayloadOf(m), "symbol")
          /\ DictHas(m.data, "symbol")

-----------------------------------------------------------------------------
(* C14 *)

\* an attempt is resolved once it is accepted, or failed and logged
Resolved == Ids(sent) \cup Ids(failed)

C14_Inv ==
    /\ \A i, j \in 1..Len(attempts) : i < j => attempts[i].id < attempts[j].id
    /\ \A i, j \in 1..Len(sent) : i < j => sent[i].id < sent[j].id
    /\ \A i \in 1..Len(attempts) : attempts[i].batch < drains => attempts[i].id \in Resolved
    /\ \A m \in Range(inflight) \cup Range(pipe) : m.batch = drains

C14_Step ==
    drains' # drains
        => /\ inflight = <<>>
           /\ pipe = <<>>
           /\ Drained \subseteq Ids(attempts)
           /\ Ids(attempts) \subseteq Resolved

\* C14: a writer issues its publish attempts in the order the records were
\* drained, and when it drains a batch every record of the batches before
\* has been attempted and every attempt is resolved (accepted, or failed and
\* logged): no attempt of an earlier batch is still pending.
C14_OrderedNoOverlap == [](C14_Inv) /\ [][C14_Step]_vars

\* a second batch has been drained after a first batch of two records, one of
\* which failed
C14_Witness ==
    /\ drains >= 2
    /\ \E i, j \in 1..Len(attempts) :
          /\ i < j
          /\ attempts[i].batch = 1
          /\ attempts[j].batch = 1
    /\ \E i \in 1..Len(failed) : failed[i].batch = 1
    /\ updates # <<>>

-----------------------------------------------------------------------------
(* C15 *)

\* C15: the Kafka writer waits for acknowledgments only when the send of
\* every record of the batch has been issued: while it is blocked on an
\* acknowledgment no record of the batch is still waiting to be sent.
C15_SendsPipelined ==
    (variant = "kafka" /\ pc = "await_ack") => Ids(updates) \subseteq Ids(attempts)

-----------------------------------------------------------------------------
(* C18 *)

\* C18: in the Redis writers the round trip of a batch, failed or not, takes
\* the writer back to the head of its loop (to wait for the next batch, or to
\* close the connection after a shutdown): a failed round trip does not end
\* the writer.
C18_RoundTripFailureSurvived ==
    [][(variant \in {"zset", "stream"} /\ pc = "execute")
            => pc' \in {"execute", "waiting", "closing"}]_vars

-----------------------------------------------------------------------------
(* C16 *)

\* the record carries every field the sink's templates name
CarriesRouting(data) == Carries(topic_parts, data) /\ Carries(key_parts, data)

\* C16: no record that lacks a field named by a template is ever published,
\* under any routing string; in particular nothing is published under the
\* string form of None.
C16_MissingFieldHalts ==
    \A m \in Range(sent) : CarriesRouting(m.data) /\ m.dest # "None"

-----------------------------------------------------------------------------
(* C17 *)

\* the record lacks a source field of the shaping spec
LacksSource(data) ==
    \E i \in 1..Len(data_targets) : ~DictHas(data, data_targets[i][1])

\* C17: when the writer processes a record that lacks a source field of the
\* shaping spec (and nothing else), the writer stays alive (it goes on with
\* the batch or back to the head of its loop) and no message is built for
\* that record.
C17_ShapingErrorDropsRecord ==
    [][(/\ pc = "batch"
        /\ index <= Len(updates)
        /\ LacksSource(updates[index].data)
        /\ CarriesRouting(updates[index].data)
        /\ pc' # pc \/ index' # index)
            => /\ pc' \in {"batch", "execute", "waiting", "closing"}
               /\ updates[index].id \notin {m.id : m \in Range(inflight') \cup Range(pipe')}]_vars

-----------------------------------------------------------------------------
(* C19 *)

\* C19: while a batch is being processed the records in it stay as they were
\* drained: no writer step changes a field of a drained record.
C19_RecordsNotMutated ==
    [][(updates # <<>> /\ updates' # <<>> /\ drains' = drains) => updates' = updates]_vars

-----------------------------------------------------------------------------
(* C20 *)

\* the flat string forms of the stream writer
Flat(field, value) == IF field = "closed" THEN <<"str", value>> ELSE <<"json", value>>

\* C20: every record the stream writer appends (without a shaping spec) has
\* each of the fields 'delta', 'book' and 'closed' it carries in flat string
\* form.
C20_NestedFieldsFlattened ==
    (variant = "stream" /\ data_targets = <<>>)
        => \A m \in Range(pipe) \cup Range(sent) :
              \A field \in {"delta", "book", "closed"} :
                  DictHas(m.data, field)
                      => DictGet(m.value, field) = Flat(field, DictGet(m.data, field))

-----------------------------------------------------------------------------
(* C21 *)

\* the writer is inside its "while self.running" loop
InLoop == pc \in {"waiting", "batch", "await_ack", "execute"}

C21_Inv ==
    /\ variant = "kafka"
          => /\ running => conn = "started"
             /\ (InLoop \/ inflight # <<>>) => conn = "started"
             /\ conn \in {"none", "created"}
                   => ~running /\ drains = 0 /\ attempts = <<>> /\ sent = <<>>
    /\ (variant # "kafka" /\ pc = "ready" /\ ~stop_requested) => running

C21_Step ==
    /\ (variant = "kafka" /\ (drains' # drains \/ attempts' # attempts))
          => conn = "started" /\ conn' = "started"
    /\ (variant = "kafka" /\ ~running /\ running')
          => conn # "started" /\ conn' = "started" /\ broker_up
    /\ (variant # "kafka" /\ pc = "new" /\ pc' = "ready") => running'
    /\ conn = "closed" => UNCHANGED <<conn, drains, attempts, sent>>

\* C21: the Kafka writer's running flag is false from construction until
\* producer.start() has succeeded, and it drains and sends only on a started
\* producer that has not been stopped: nothing is drained or sent before the
\* handshake or after the close.  The Redis writers are running from
\* construction.
C21_RunningAfterHandshake == [](C21_Inv) /\ [][C21_Step]_vars

\* a Kafka writer that has had a record accepted is awaiting the
\* acknowledgment of another send on its started producer
C21_Witness ==
    /\ variant = "kafka"
    /\ conn = "started"
    /\ running
    /\ pc = "await_ack"
    /\ inflight # <<>>
    /\ sent # <<>>

-----------------------------------------------------------------------------
(* C24 *)

\* C24: when the running flag of a Kafka writer is cleared while the writer
\* is still connecting (attempting producer.start() or sleeping between two
\* attempts), the writer never enters its loop afterwards: the flag stays
\* false, nothing is drained and nothing is sent.
C24_ShutdownWhileConnectingKept ==
    (variant = "kafka" /\ stop_requested /\ stop_at.pc \in {"connecting", "sleeping"})
        => /\ ~running
           /\ ~InLoop
           /\ drains = 0
           /\ attempts = <<>>
           /\ sent = <<>>

-----------------------------------------------------------------------------
(* C23 *)

\* the cache key the dynamic form gives a record
EntryOf(data) == DynamicKey("key", LookupKeys("key", custom_string_keys), data)

\* C23: the string get_formatted_string returns for a record is the string
\* the substitution of the template against that record gives without the
\* cache, whatever records were resolved before and also when the values
\* hold a '-'; two records that differ in a dynamic field of the template
\* have different cache entries.
C23_CacheTransparent ==
    (last.op = "resolve" /\ last.ret.kind = "str")
        => /\ last.ret.value = RouteOf(key_template, last.data)
           /\ \A e \in Resolves(last.before) :
                 (e.ret.kind = "str" /\ ~SameDynamic(e.data, last.data))
                     => EntryOf(e.data) # EntryOf(last.data)

-----------------------------------------------------------------------------
(* C22 *)

\* the running flag was cleared while the writer was inside its loop
StoppedInLoop ==
    stop_requested /\ stop_at.pc \in {"waiting", "batch", "await_ack", "execute"}

C22_Step == pc \in {"closing", "closed"} => drains' = drains

\* C22: once the application has cleared the running flag of a writer that
\* is inside its loop, the writer eventually closes the connection; it
\* drains no batch after it has left the loop.
C22_ShutdownReachesClosed ==
    /\ StoppedInLoop ~> (pc = "closed")
    /\ [][C22_Step]_vars

====
